---- MODULE Spec2Model ----
(***************************************************************************)
(* A model of video_first_last_frame.py: the source resolver               *)
(* (_extract_video_source, _resolve_video_path), the frame decoder         *)
(* (_read_first_last_frames), the tensor converter (_to_comfy_image), the  *)
(* preview persister (_save_temp_preview_png), the node entry point        *)
(* (VideoFirstLastFrame.load) and the two HTTP handlers.                   *)
(*                                                                         *)
(* A Python str is a sequence of tokens.  A token is an indivisible run of *)
(* characters ("input", "/", "\\", " ", ".mp4", a name); the string        *)
(* methods the code uses (strip, lower, replace, startswith, endswith,     *)
(* split, os.path.join, os.path.basename) are defined on token sequences.  *)
(* A Python value of unknown type is a record tagged by its type in t.     *)
(***************************************************************************)
EXTENDS Integers, Sequences, FiniteSets, TLC

VARIABLES pc, rv, ex, ld, dec, up, rec

vars == <<pc, rv, ex, ld, dec, up, rec>>

(***************************************************************************)
(* Bounds of the model.                                                    *)
(***************************************************************************)
MaxPathLen == 3
MaxList == 2
MaxKeys == 2
MaxFrames == 3

(***************************************************************************)
(* Python values.                                                          *)
(***************************************************************************)
NoneV == [t |-> "none"]
Str(s) == [t |-> "str", s |-> s]
IntV == [t |-> "int"]
\* A torch.Tensor: its number of dimensions and the images along its first
\* axis (for fewer than 4 dimensions, the one image it holds).
Tensor(n, imgs) == [t |-> "tensor", ndim |-> n, imgs |-> imgs]
List(items) == [t |-> "list", items |-> items]
Tuple(items) == [t |-> "tuple", items |-> items]
Dict(m) == [t |-> "dict", m |-> m]

IsStr(v) == v.t = "str"
IsDict(v) == v.t = "dict"
IsSeqV(v) == v.t \in {"list", "tuple"}
IsTensor(v) == v.t = "tensor"

\* dict.get(key): the value, or None when the key is absent.
Get(d, key) == IF key \in DOMAIN d.m THEN d.m[key] ELSE NoneV

(***************************************************************************)
(* String methods on token sequences.                                      *)
(***************************************************************************)
RECURSIVE LStrip(_)
LStrip(s) == IF s # <<>> /\ Head(s) = " " THEN LStrip(Tail(s)) ELSE s

RECURSIVE RStrip(_)
RStrip(s) ==
    IF s # <<>> /\ s[Len(s)] = " " THEN RStrip(SubSeq(s, 1, Len(s) - 1)) ELSE s

Strip(s) == RStrip(LStrip(s))

LowerTok(c) ==
    CASE c = "INPUT" -> "input"
      [] c = ".MP4" -> ".mp4"
      [] OTHER -> c

Lower(s) == [i \in DOMAIN s |-> LowerTok(s[i])]

\* str.replace("\\", "/")
ReplaceBackslash(s) == [i \in DOMAIN s |-> IF s[i] = "\\" THEN "/" ELSE s[i]]

StartsWith(s, p) == Len(s) >= Len(p) /\ SubSeq(s, 1, Len(p)) = p

EndsWith(s, p) ==
    Len(s) >= Len(p) /\ SubSeq(s, Len(s) - Len(p) + 1, Len(s)) = p

\* The index of the first "/" of s, 0 when it has none.
FirstSlash(s) ==
    IF \E i \in DOMAIN s : s[i] = "/"
    THEN CHOOSE i \in DOMAIN s : s[i] = "/" /\ \A j \in 1..(i - 1) : s[j] # "/"
    ELSE 0

\* The index of the last "/" of s, 0 when it has none.
LastSlash(s) ==
    IF \E i \in DOMAIN s : s[i] = "/"
    THEN CHOOSE i \in DOMAIN s : s[i] = "/" /\ \A j \in (i + 1)..Len(s) : s[j] # "/"
    ELSE 0

\* s.split("/", 1): one part when s has no "/", else the parts around the first.
SplitOnce(s) ==
    LET i == FirstSlash(s)
    IN  IF i = 0 THEN <<s>> ELSE <<SubSeq(s, 1, i - 1), SubSeq(s, i + 1, Len(s))>>

\* os.path.join(d, r) (posixpath): an absolute r replaces d.
Join(d, r) ==
    IF r # <<>> /\ Head(r) = "/" THEN r
    ELSE IF d # <<>> /\ d[Len(d)] = "/" THEN d \o r
    ELSE d \o <<"/">> \o r

\* os.path.basename(s) (posixpath): what follows the last "/".
Basename(s) == SubSeq(s, LastSlash(s) + 1, Len(s))

(***************************************************************************)
(* The host's storage directories (folder_paths).                          *)
(***************************************************************************)
InputDir == <<"<input_dir>">>
OutputDir == <<"<output_dir>">>
TempDir == <<"<temp_dir>">>

(***************************************************************************)
(* _resolve_video_path.  fs is the set of paths that are regular files,    *)
(* host tells whether folder_paths can be imported.  A try block is an     *)
(* operator whose result is tagged "ret" (the function returns v), "next"  *)
(* (the block ends normally) or "raise" (an exception leaves the block).   *)
(***************************************************************************)
Ret(v) == [k |-> "ret", v |-> v]
Fall == [k |-> "next"]
Raise(e) == [k |-> "raise", e |-> e]

\* One "if lowered.startswith(prefix): ..." statement of the first try block.
PrefixStep(video, lowered, prefix, dir, fs) ==
    IF StartsWith(lowered, <<prefix, "/">>)
    THEN LET parts == SplitOnce(video)
         IN  IF Len(parts) < 2 THEN Raise("IndexError")
             ELSE IF Join(dir, parts[2]) \in fs THEN Ret(Join(dir, parts[2]))
             ELSE Fall
    ELSE Fall

\* The first try block: the three prefixes in turn.
PrefixBlock(video, lowered, fs, host) ==
    IF ~host THEN Raise("ImportError")
    ELSE LET a == PrefixStep(video, lowered, "input", InputDir, fs)
             b == PrefixStep(video, lowered, "output", OutputDir, fs)
             c == PrefixStep(video, lowered, "temp", TempDir, fs)
         IN  IF a.k # "next" THEN a ELSE IF b.k # "next" THEN b ELSE c

\* The second try block: the string as a file name of the input directory.
InputBlock(video, fs, host) ==
    IF ~host THEN Raise("ImportError")
    ELSE IF Join(InputDir, video) \in fs THEN Ret(Join(InputDir, video))
    ELSE Fall

ResolveVideoPath(video0, fs, host) ==
    LET video == Strip(video0)
        lowered == Lower(ReplaceBackslash(video))
        a == PrefixBlock(video, lowered, fs, host)
        b == InputBlock(video, fs, host)
    IN  IF video = <<>> THEN video
        ELSE IF a.k = "ret" THEN a.v
        ELSE IF b.k = "ret" THEN b.v
        ELSE video

(***************************************************************************)
(* _extract_video_source.  The result is the triple                        *)
(* (video_path, first_image_tensor, last_image_tensor).                    *)
(***************************************************************************)
PathKeys == <<"path", "fullpath", "filename", "file", "video", "name">>

Unsqueeze0(x) == [x EXCEPT !.ndim = @ + 1]
\* x[0:1] and x[-1:] of a tensor with at least one image.
SliceFirst(x) == [x EXCEPT !.imgs = <<x.imgs[1]>>]
SliceLast(x) == [x EXCEPT !.imgs = <<x.imgs[Len(x.imgs)]>>]

\* for key in (...): v = d.get(key); if isinstance(v, str) and v.strip(): return v
KeyHits(d) ==
    {i \in DOMAIN PathKeys :
        LET v == Get(d, PathKeys[i]) IN IsStr(v) /\ Strip(v.s) # <<>>}

KeyLookup(d) ==
    IF KeyHits(d) = {} THEN NoneV
    ELSE Get(d, PathKeys[CHOOSE i \in KeyHits(d) : \A j \in KeyHits(d) : i <= j])

\* A list or tuple of tensors only: its first and last items, batched.
Batched(x) == IF x.ndim = 3 THEN Unsqueeze0(x) ELSE x

AllTensors(items) == \A i \in DOMAIN items : IsTensor(items[i])

\* ExtractTail without the branch for a list of tensors (lines 174-182).
ExtractTailHeadOnly(v) ==
    LET seqHit ==
            IF IsSeqV(v) /\ v.items # <<>>
            THEN LET head == v.items[1]
                 IN  IF IsStr(head) THEN Ret(<<head, NoneV, NoneV>>)
                     ELSE IF IsDict(head) /\ KeyLookup(head) # NoneV
                     THEN Ret(<<KeyLookup(head), NoneV, NoneV>>)
                     ELSE Fall
            ELSE Fall
    IN  IF seqHit.k = "ret" THEN seqHit.v
        ELSE IF IsTensor(v) /\ v.ndim = 4 /\ Len(v.imgs) >= 1
        THEN <<NoneV, SliceFirst(v), SliceLast(v)>>
        ELSE <<NoneV, NoneV, NoneV>>

\* The statements after the dict block (lines 168-208), on the payload it left.
ExtractTail(v) ==
    LET seqHit ==
            IF IsSeqV(v) /\ v.items # <<>>
            THEN IF AllTensors(v.items)
                 THEN Ret(<<NoneV, Batched(v.items[1]), Batched(v.items[Len(v.items)])>>)
                 ELSE LET head == v.items[1]
                      IN  IF IsStr(head) THEN Ret(<<head, NoneV, NoneV>>)
                          ELSE IF IsDict(head) /\ KeyLookup(head) # NoneV
                          THEN Ret(<<KeyLookup(head), NoneV, NoneV>>)
                          ELSE Fall
            ELSE Fall
    IN  IF seqHit.k = "ret" THEN seqHit.v
        ELSE IF IsTensor(v) /\ v.ndim = 4 /\ Len(v.imgs) >= 1
        THEN <<NoneV, SliceFirst(v), SliceLast(v)>>
        ELSE <<NoneV, NoneV, NoneV>>

ExtractVideoSource(video_in) ==
    IF video_in = NoneV THEN <<NoneV, NoneV, NoneV>>
    ELSE IF IsStr(video_in) THEN <<video_in, NoneV, NoneV>>
    ELSE IF IsDict(video_in)
    THEN IF KeyLookup(video_in) # NoneV THEN <<KeyLookup(video_in), NoneV, NoneV>>
         ELSE IF Get(video_in, "frames") # NoneV
         THEN ExtractTail(Get(video_in, "frames"))
         ELSE ExtractTail(video_in)
    ELSE ExtractTail(video_in)

(***************************************************************************)
(* Frames.  A decoded frame is an array: the index of the frame in the     *)
(* video, the number of dimensions, the size of the last axis (0 for a     *)
(* 2-dimensional array), the channel order and the element type.           *)
(***************************************************************************)
Frame(i, n, c, o) ==
    [t |-> "frame", idx |-> i, ndim |-> n, ch |-> c, order |-> o, dtype |-> "uint8"]

\* What cap.read() decodes: height x width x 3, BGR.
BgrFrame(i) == Frame(i, 3, 3, "BGR")

\* cv2.cvtColor(f, cv2.COLOR_BGR2RGB)
CvtColor(f) == [f EXCEPT !.order = "RGB"]

\* first[:, :, :3] when first.ndim == 3 and first.shape[2] >= 3 (lines 88-91)
EnsureRgb(f) == IF f.ndim = 3 /\ f.ch >= 3 THEN [f EXCEPT !.ch = 3] ELSE f

\* The arrays imageio may hand back: grey (H x W), H x W x 1, RGB, RGBA.
IioShapes == {<<2, 0>>, <<3, 1>>, <<3, 3>>, <<3, 4>>}

\* _to_comfy_image: the frame scaled to [0, 1] with a leading batch axis.
ToComfyImage(f) ==
    IF f = NoneV THEN Raise("ValueError")
    ELSE IF f.ndim # 3 \/ f.ch # 3 THEN Raise("ValueError")
    ELSE Ret(Tensor(4, <<[f EXCEPT !.dtype = "float32/255"]>>))

\* os.path.expandvars(os.path.expanduser(s))
ExpandTok(c) ==
    CASE c = "~" -> "<home>"
      [] c = "$HOME" -> "<home>"
      [] OTHER -> c

ExpandUser(s) ==
    IF s # <<>> /\ Head(s) = "~" THEN <<ExpandTok("~")>> \o Tail(s) ELSE s

ExpandVars(s) == [i \in DOMAIN s |-> IF s[i] = "$HOME" THEN ExpandTok(s[i]) ELSE s[i]]

(***************************************************************************)
(* _read_first_last_frames, one action per step.  dec.cap is the primary   *)
(* backend's handle: "none" before cv2.VideoCapture(video_path), "held"    *)
(* from then on, "released" after cap.release().  dec.tried and dec.failed *)
(* are the backends the call has turned to and those that failed.          *)
(***************************************************************************)
DecInit ==
    [video_path |-> <<>>, isfile |-> FALSE, cv2 |-> FALSE, cap |-> "none", pos |-> 0,
     nFrames |-> 0, frame_count |-> 0, seekRead |-> "none",
     first_bgr |-> NoneV, first_rgb |-> NoneV, last_bgr |-> NoneV,
     last_rgb |-> NoneV, tried |-> {}, failed |-> {}, out |-> "none", ret |-> NoneV]

\* An exception leaves the function.
DecRaise(d, e) == [d EXCEPT !.out = e]

\* Lines 29-34: the argument checks.
ReadStart ==
    /\ pc = "rf_start"
    /\ LET path == ExpandVars(ExpandUser(Strip(dec.video_path)))
       IN  IF Strip(dec.video_path) = <<>>
           THEN /\ dec' = DecRaise(dec, "ValueError")
                /\ pc' = "rf_exit"
                /\ ld' = ld
           ELSE /\ ld' = [ld EXCEPT !.effects = @ \cup {"isfile"}]
                /\ IF path \in ld.fs
                   THEN /\ dec' = [dec EXCEPT !.video_path = path, !.isfile = TRUE]
                        /\ pc' = "rf_import_cv2"
                   ELSE /\ dec' = DecRaise([dec EXCEPT !.video_path = path],
                                           "FileNotFoundError")
                        /\ pc' = "rf_exit"
    /\ UNCHANGED <<rv, ex, up, rec>>

\* ImportCv2 without the "except ImportError" clause: a missing cv2 raises.
ImportCv2Propagates ==
    /\ pc = "rf_import_cv2"
    /\ \E installed \in BOOLEAN :
          IF installed
          THEN /\ dec' = [dec EXCEPT !.cv2 = TRUE, !.cap = "held",
                                     !.tried = @ \cup {"primary"}]
               /\ pc' = "rf_opened"
          ELSE /\ dec' = DecRaise([dec EXCEPT !.cv2 = FALSE], "ImportError")
               /\ pc' = "rf_exit"
    /\ ld' = [ld EXCEPT !.effects = @ \cup {"decode"}]
    /\ UNCHANGED <<rv, ex, up, rec>>

\* Lines 37-40 and 75: import cv2 and create the handle, or turn to imageio.
ImportCv2 ==
    /\ pc = "rf_import_cv2"
    /\ \E installed \in BOOLEAN :
          IF installed
          THEN /\ dec' = [dec EXCEPT !.cv2 = TRUE, !.cap = "held",
                                     !.tried = @ \cup {"primary"}]
               /\ pc' = "rf_opened"
          ELSE /\ dec' = [dec EXCEPT !.cv2 = FALSE]
               /\ pc' = "rf_iio"
    /\ ld' = [ld EXCEPT !.effects = @ \cup {"decode"}]
    /\ UNCHANGED <<rv, ex, up, rec>>

\* Lines 41-42: cap.isOpened().  An opened file has nFrames decodable frames
\* and reports frame_count of them (a count read from the container's header,
\* or 0 when it has none).
CheckOpened ==
    /\ pc = "rf_opened"
    /\ \E opened \in BOOLEAN :
          IF ~opened
          THEN /\ dec' = DecRaise([dec EXCEPT !.failed = @ \cup {"primary"}],
                                  "ValueError")
               /\ pc' = "rf_exit"
          ELSE /\ \E n \in 0..MaxFrames, c \in 0..(MaxFrames + 1) :
                     dec' = [dec EXCEPT !.nFrames = n, !.frame_count = c, !.pos = 0]
               /\ pc' = "rf_read_first"
    /\ UNCHANGED <<rv, ex, ld, up, rec>>

\* Lines 45-48: the first frame.
ReadFirst ==
    /\ pc = "rf_read_first"
    /\ IF dec.pos < dec.nFrames
       THEN /\ dec' = [dec EXCEPT !.first_bgr = BgrFrame(dec.pos), !.pos = @ + 1]
            /\ pc' = "rf_cvt_first"
       ELSE /\ dec' = DecRaise([dec EXCEPT !.cap = "released",
                                           !.failed = @ \cup {"primary"}],
                               "ValueError")
            /\ pc' = "rf_exit"
    /\ UNCHANGED <<rv, ex, ld, up, rec>>

\* Line 50: the first frame's colour conversion, which may raise cv2.error.
CvtFirst ==
    /\ pc = "rf_cvt_first"
    /\ \E fault \in BOOLEAN :
          IF fault
          THEN /\ dec' = DecRaise([dec EXCEPT !.failed = @ \cup {"primary"}],
                                  "cv2.error")
               /\ pc' = "rf_exit"
          ELSE /\ dec' = [dec EXCEPT !.first_rgb = CvtColor(dec.first_bgr)]
               /\ pc' = "rf_count"
    /\ UNCHANGED <<rv, ex, ld, up, rec>>

\* Lines 53-57: the reported frame count, and the seek to the last index.
\* cap.set moves the handle's position there, past the end of the stream when
\* the file holds fewer frames than it reports.
SeekLast ==
    /\ pc = "rf_count"
    /\ IF dec.frame_count > 1
       THEN /\ dec' = [dec EXCEPT !.pos = dec.frame_count - 1]
            /\ pc' = "rf_read_last"
       ELSE /\ dec' = dec
            /\ pc' = "rf_scan"
    /\ UNCHANGED <<rv, ex, ld, up, rec>>

\* Lines 58-60: the read after the seek, and its colour conversion.
ReadLast ==
    /\ pc = "rf_read_last"
    /\ IF dec.pos < dec.nFrames
       THEN \E fault \in BOOLEAN :
               IF fault
               THEN /\ dec' = DecRaise([dec EXCEPT !.pos = @ + 1, !.seekRead = "ok",
                                          !.failed = @ \cup {"primary"}], "cv2.error")
                    /\ pc' = "rf_exit"
               ELSE /\ dec' = [dec EXCEPT !.last_bgr = BgrFrame(dec.pos),
                                          !.last_rgb = CvtColor(BgrFrame(dec.pos)),
                                          !.pos = @ + 1, !.seekRead = "ok"]
                    /\ pc' = "rf_release"
       ELSE /\ dec' = [dec EXCEPT !.seekRead = "failed"]
            /\ pc' = "rf_scan"
    /\ UNCHANGED <<rv, ex, ld, up, rec>>

\* Lines 63-64: the fallback starts from the first frame.
ScanInit ==
    /\ pc = "rf_scan"
    /\ dec' = [dec EXCEPT !.last_bgr = dec.first_bgr]
    /\ pc' = "rf_scan_read"
    /\ UNCHANGED <<rv, ex, ld, up, rec>>

\* Lines 65-69: one turn of the loop, from the handle's current position.
ScanRead ==
    /\ pc = "rf_scan_read"
    /\ IF dec.pos < dec.nFrames
       THEN /\ dec' = [dec EXCEPT !.last_bgr = BgrFrame(dec.pos), !.pos = @ + 1]
            /\ pc' = "rf_scan_read"
       ELSE /\ dec' = dec
            /\ pc' = "rf_cvt_last"
    /\ UNCHANGED <<rv, ex, ld, up, rec>>

\* Line 70: the colour conversion of the fallback's frame.
CvtLast ==
    /\ pc = "rf_cvt_last"
    /\ \E fault \in BOOLEAN :
          IF fault
          THEN /\ dec' = DecRaise([dec EXCEPT !.failed = @ \cup {"primary"}],
                                  "cv2.error")
               /\ pc' = "rf_exit"
          ELSE /\ dec' = [dec EXCEPT !.last_rgb = CvtColor(dec.last_bgr)]
               /\ pc' = "rf_release"
    /\ UNCHANGED <<rv, ex, ld, up, rec>>

\* Lines 72-73: release and return.
ReleaseReturn ==
    /\ pc = "rf_release"
    /\ dec' = [dec EXCEPT !.cap = "released", !.out = "returned",
                          !.ret = <<dec.first_rgb, dec.last_rgb>>]
    /\ pc' = "rf_exit"
    /\ UNCHANGED <<rv, ex, ld, up, rec>>

\* Lines 75-98: imageio, when cv2 cannot be imported.  Any exception of the
\* block (imageio missing, a read that fails) becomes a RuntimeError.
ReadIio ==
    /\ pc = "rf_iio"
    /\ \E installed \in BOOLEAN, readable \in BOOLEAN :
          IF ~installed \/ ~readable
          THEN /\ dec' = DecRaise([dec EXCEPT !.tried = @ \cup {"secondary"},
                                              !.failed = @ \cup {"secondary"}],
                                  "RuntimeError")
               /\ pc' = "rf_exit"
          ELSE \E n \in 1..MaxFrames, sh \in IioShapes :
                  /\ dec' = [dec EXCEPT
                               !.tried = @ \cup {"secondary"}, !.nFrames = n,
                               !.out = "returned",
                               !.ret = <<EnsureRgb(Frame(0, sh[1], sh[2], "RGB")),
                                         EnsureRgb(Frame(n - 1, sh[1], sh[2], "RGB"))>>]
                  /\ pc' = "rf_exit"
    /\ UNCHANGED <<rv, ex, ld, up, rec>>

(***************************************************************************)
(* _save_temp_preview_png.  fault names the step of the try block that     *)
(* raises ("none": no step does); every exception is caught (line 224).    *)
(***************************************************************************)
PreviewFaults == {"none", "import", "makedirs", "encode", "save"}

\* Image.fromarray takes H x W, H x W x 2, H x W x 3 and H x W x 4 arrays of bytes.
FromArrayOk(f) == f.ndim = 2 \/ (f.ndim = 3 /\ f.ch \in {2, 3, 4})

SaveTempPreviewPng(frame_rgb, fault) ==
    IF fault = "none"
    THEN [t |-> "dict",
          m |-> [filename |-> Str(<<"videoframe_preview_", "<uuid4>", ".png">>),
                 subfolder |-> Str(<<>>), type |-> Str(<<"temp">>)]]
    ELSE NoneV

(***************************************************************************)
(* VideoFirstLastFrame.load.  ld.effects collects what the call did        *)
(* besides computing: "resolve" (path resolution), "isfile" (the           *)
(* file-existence check), "decode" (a backend was turned to), "preview"    *)
(* (the preview persister ran).                                            *)
(***************************************************************************)
LdInit ==
    [video |-> <<>>, video_in |-> NoneV, path_from_in |-> NoneV, fs |-> {},
     host |-> FALSE, effects |-> {}, first_rgb |-> NoneV, last_rgb |-> NoneV,
     previewFault |-> "unset", preview |-> NoneV, out |-> "none",
     result |-> NoneV, ui |-> NoneV]

\* A path that can name a regular file: it does not end in a separator, and no
\* name on disk holds a backslash.
IsFilePath(p) == p # <<>> /\ p[Len(p)] # "/" /\ \A i \in DOMAIN p : p[i] # "\\"

\* Python's "x or y" on an Optional[str] x.
OrElse(x, y) == IF x = NoneV \/ x.s = <<>> THEN y ELSE x.s

\* The files a resolution of video can probe: under each storage directory the
\* remainder of the string (as the code splits it, and with the separators
\* normalised), and the string as a name of the input directory.
ResolveCandidates(video0) ==
    LET video == Strip(video0)
        norm == ReplaceBackslash(video)
        Under(prefix, dir) ==
            IF StartsWith(Lower(norm), <<prefix, "/">>)
            THEN {Join(dir, SubSeq(norm, 3, Len(norm)))}
                 \cup (IF Len(SplitOnce(video)) = 2
                       THEN {Join(dir, SplitOnce(video)[2])} ELSE {})
            ELSE {}
    IN  IF video = <<>> THEN {}
        ELSE {p \in Under("input", InputDir) \cup Under("output", OutputDir)
                    \cup Under("temp", TempDir) \cup {Join(InputDir, video)} :
                IsFilePath(p)}

LoadCandidates(video) ==
    ResolveCandidates(video)
    \cup {p \in {ExpandVars(ExpandUser(Strip(video)))} : IsFilePath(p)}

\* Lines 326-329: the upstream payload; frames given directly are returned.
LoadExtract ==
    /\ pc = "ld_extract"
    /\ LET src == ExtractVideoSource(ld.video_in)
       IN  IF src[2] # NoneV /\ src[3] # NoneV
           THEN /\ ld' = [ld EXCEPT !.out = "returned", !.result = <<src[2], src[3]>>]
                /\ pc' = "ld_done"
           ELSE /\ ld' = [ld EXCEPT !.path_from_in = src[1]]
                /\ pc' = "ld_resolve"
    /\ UNCHANGED <<rv, ex, dec, up, rec>>

\* Line 331: the path, resolved against the files on disk.
LoadResolve ==
    /\ pc = "ld_resolve"
    /\ LET arg == OrElse(ld.path_from_in, ld.video)
       IN  \E host \in BOOLEAN, fs \in SUBSET LoadCandidates(arg) :
              /\ ld' = [ld EXCEPT !.fs = fs, !.host = host,
                                  !.effects = @ \cup {"resolve"}]
              /\ dec' = [DecInit EXCEPT !.video_path = ResolveVideoPath(arg, fs, host)]
    /\ pc' = "rf_start"
    /\ UNCHANGED <<rv, ex, up, rec>>

\* Line 332: _read_first_last_frames has returned or raised.
LoadReadReturn ==
    /\ pc = "rf_exit"
    /\ IF dec.out = "returned"
       THEN /\ ld' = [ld EXCEPT !.first_rgb = dec.ret[1], !.last_rgb = dec.ret[2]]
            /\ pc' = "ld_preview"
       ELSE /\ ld' = [ld EXCEPT !.out = dec.out]
            /\ pc' = "ld_done"
    /\ UNCHANGED <<rv, ex, dec, up, rec>>

\* LoadPreview with the persister's "except Exception" clause left out.
LoadPreviewUncaught ==
    /\ pc = "ld_preview"
    /\ \E fault \in PreviewFaults :
          /\ fault = "none" => FromArrayOk(ld.first_rgb)
          /\ IF fault = "none"
             THEN /\ ld' = [ld EXCEPT !.previewFault = fault,
                                     !.preview = SaveTempPreviewPng(ld.first_rgb, fault),
                                     !.effects = @ \cup {"preview"}]
                  /\ pc' = "ld_return"
             ELSE /\ ld' = [ld EXCEPT !.previewFault = fault, !.out = "OSError",
                                     !.effects = @ \cup {"preview"}]
                  /\ pc' = "ld_done"
    /\ UNCHANGED <<rv, ex, dec, up, rec>>

\* Line 334: the preview, which succeeds or fails at one of its steps.
LoadPreview ==
    /\ pc = "ld_preview"
    /\ \E fault \in PreviewFaults :
          /\ fault = "none" => FromArrayOk(ld.first_rgb)
          /\ ld' = [ld EXCEPT !.previewFault = fault,
                              !.preview = SaveTempPreviewPng(ld.first_rgb, fault),
                              !.effects = @ \cup {"preview"}]
    /\ pc' = "ld_return"
    /\ UNCHANGED <<rv, ex, dec, up, rec>>

\* Lines 335-341: the two images, with the preview's descriptor when there is one.
LoadReturn ==
    /\ pc = "ld_return"
    /\ LET a == ToComfyImage(ld.first_rgb)
           b == ToComfyImage(ld.last_rgb)
       IN  IF a.k = "raise" \/ b.k = "raise"
           THEN ld' = [ld EXCEPT !.out = "ValueError"]
           ELSE ld' = [ld EXCEPT !.out = "returned", !.result = <<a.v, b.v>>,
                          !.ui = IF ld.preview # NoneV THEN List(<<ld.preview>>)
                                 ELSE NoneV]
    /\ pc' = "ld_done"
    /\ UNCHANGED <<rv, ex, dec, up, rec>>

(***************************************************************************)
(* videoframenode_upload, one action per step.  up.written is what the     *)
(* handler has written to disk, up.out how it ended: "response" (a JSON    *)
(* response of status up.status) or "raised" (an exception left it).       *)
(***************************************************************************)
UpInit ==
    [form_ok |-> TRUE, file |-> NoneV, filename |-> <<>>, safe_name |-> <<>>,
     written |-> {}, out |-> "none", status |-> 0, body |-> NoneV]

FileField(fn) == [t |-> "file", filename |-> fn, data |-> "<bytes>"]

JsonResponse(u, body, status) ==
    [u EXCEPT !.out = "response", !.body = body, !.status = status]

\* Lines 240-245: the form, and its "file" field.
UploadPost ==
    /\ pc = "up_post"
    /\ IF ~up.form_ok
       THEN /\ up' = JsonResponse(up, [error |-> "invalid form data"], 400)
            /\ pc' = "up_done"
       ELSE /\ up' = up
            /\ pc' = "up_validate"
    /\ UNCHANGED <<rv, ex, ld, dec, rec>>

\* Lines 247-252: a file must be there, and its name end in .mp4.
UploadValidate ==
    /\ pc = "up_validate"
    /\ LET filename == IF up.file.t = "file" /\ up.file.filename # NoneV
                       THEN up.file.filename.s ELSE <<>>
       IN  IF up.file = NoneV
           THEN /\ up' = JsonResponse(up, [error |-> "missing file"], 400)
                /\ pc' = "up_done"
           ELSE IF ~EndsWith(Lower(filename), <<".mp4">>)
           THEN /\ up' = JsonResponse([up EXCEPT !.filename = filename],
                                      [error |-> "only .mp4 supported"], 400)
                /\ pc' = "up_done"
           ELSE /\ up' = [up EXCEPT !.filename = filename]
                /\ pc' = "up_makedirs"
    /\ UNCHANGED <<rv, ex, ld, dec, rec>>

\* Lines 254-255: os.makedirs, outside any try block.
UploadMakedirs ==
    /\ pc = "up_makedirs"
    /\ \E fault \in BOOLEAN :
          IF fault
          THEN /\ up' = [up EXCEPT !.out = "raised"]
               /\ pc' = "up_done"
          ELSE /\ up' = up
               /\ pc' = "up_read"
    /\ UNCHANGED <<rv, ex, ld, dec, rec>>

\* Lines 257-260: the stored name, and the uploaded bytes.
UploadRead ==
    /\ pc = "up_read"
    /\ \E fault \in BOOLEAN :
          IF fault
          THEN /\ up' = [up EXCEPT !.safe_name = Basename(up.filename),
                                   !.out = "raised"]
               /\ pc' = "up_done"
          ELSE /\ up' = [up EXCEPT !.safe_name = Basename(up.filename)]
               /\ pc' = "up_write"
    /\ UNCHANGED <<rv, ex, ld, dec, rec>>

\* Lines 261-264: open, write, respond.  open may fail before the file exists,
\* write after it was created.
UploadWrite ==
    /\ pc = "up_write"
    /\ LET save_path == Join(InputDir, up.safe_name)
       IN  \E fault \in {"none", "open", "write"} :
              CASE fault = "open" -> up' = [up EXCEPT !.out = "raised"]
                [] fault = "write" ->
                     up' = [up EXCEPT !.out = "raised",
                              !.written = {[path |-> save_path, data |-> "<partial>"]}]
                [] OTHER ->
                     up' = JsonResponse(
                              [up EXCEPT !.written =
                                  {[path |-> save_path, data |-> up.file.data]}],
                              [name |-> up.safe_name], 200)
    /\ pc' = "up_done"
    /\ UNCHANGED <<rv, ex, ld, dec, rec>>

(***************************************************************************)
(* videoframenode_recent: the whole handler is one try block.  A directory *)
(* is missing, listed, or raises when listed; a listing is the names in    *)
(* os.listdir's order, each with its modification time (-1: getmtime       *)
(* raises).                                                                *)
(***************************************************************************)
RecentCap == 50

RecInit == [input |-> NoneV, output |-> NoneV, out |-> "none", status |-> 0, body |-> NoneV]

\* Lines 279-287: the .mp4 names of one listing, as (mtime, "<prefix>/<name>").
RECURSIVE DirEntries(_, _)
DirEntries(prefix, listing) ==
    IF listing = <<>> THEN <<>>
    ELSE LET e == Head(listing)
             rest == DirEntries(prefix, Tail(listing))
         IN  IF EndsWith(Lower(e.name), <<".mp4">>)
             THEN <<[mtime |-> IF e.mtime = -1 THEN 0 ELSE e.mtime,
                     name |-> <<prefix, "/">> \o e.name]>> \o rest
             ELSE rest

\* Line 289: entries.sort(key=mtime, reverse=True), a stable sort.
RECURSIVE InsertDesc(_, _)
InsertDesc(x, s) ==
    IF s = <<>> THEN <<x>>
    ELSE IF Head(s).mtime >= x.mtime THEN <<Head(s)>> \o InsertDesc(x, Tail(s))
    ELSE <<x>> \o s

RECURSIVE SortDesc(_)
SortDesc(s) ==
    IF s = <<>> THEN <<>>
    ELSE InsertDesc(s[Len(s)], SortDesc(SubSeq(s, 1, Len(s) - 1)))

\* Lines 276-278: a directory that is not there is skipped.
Listed(d) == IF d.state = "missing" THEN <<>> ELSE d.listing

RecentFiles(input, output) ==
    LET sorted == SortDesc(DirEntries("input", Listed(input))
                           \o DirEntries("output", Listed(output)))
        kept == SubSeq(sorted, 1, IF Len(sorted) < RecentCap THEN Len(sorted)
                                  ELSE RecentCap)
    IN  [i \in DOMAIN kept |-> kept[i].name]

\* Lines 269-293.
RecentHandler ==
    /\ pc = "rc_scan"
    /\ IF rec.input.state = "error" \/ rec.output.state = "error"
       THEN rec' = [rec EXCEPT !.out = "response", !.status = 200,
                               !.body = [files |-> <<>>, error |-> "<str(e)>"]]
       ELSE rec' = [rec EXCEPT !.out = "response", !.status = 200,
                               !.body = [files |-> RecentFiles(rec.input, rec.output)]]
    /\ pc' = "rc_done"
    /\ UNCHANGED <<rv, ex, ld, dec, up>>

(***************************************************************************)
(* The inputs of the calls.                                                *)
(***************************************************************************)
SeqsUpTo(S, n) == UNION {[1..k -> S] : k \in 0..n}

PathTokens == {"input", "INPUT", "output", "temp", "/", "\\", " ", "a"}
PathStrings == SeqsUpTo(PathTokens, MaxPathLen)

UploadTokens == {"a", "/", "..", ".mp4", ".MP4", ".mov"}
UploadNames == SeqsUpTo(UploadTokens, MaxPathLen)
UploadFiles ==
    {NoneV, Str(<<"a", ".mp4">>), FileField(NoneV)}
    \cup {FileField(Str(n)) : n \in UploadNames}

StrVals == {Str(<<"a">>), Str(<<"b">>), Str(<<" ">>), Str(<<>>)}
TensorVals ==
    {Tensor(3, <<"A">>), Tensor(4, <<"A", "B">>), Tensor(4, <<>>), Tensor(2, <<"A">>)}
Atoms == {NoneV, IntV} \cup StrVals \cup TensorVals

\* The dicts of at most n keys: a path key holds one of pathVals, "frames" one
\* of frameVals.
DictsOver(keys, pathVals, frameVals, n) ==
    {Dict(m) : m \in UNION {
        {f \in [K -> pathVals \cup frameVals] :
            \A k \in K : f[k] \in IF k = "frames" THEN frameVals ELSE pathVals} :
        K \in {S \in SUBSET keys : Cardinality(S) <= n}}}

HeadDicts ==
    DictsOver({"path", "name", "frames"}, {Str(<<"a">>), Str(<<"b">>), Str(<<" ">>)},
              {Tensor(4, <<"A", "B">>), List(<<Tensor(3, <<"A">>), Tensor(3, <<"B">>)>>)},
              MaxKeys)

FrameVals ==
    {Str(<<"c">>), Tensor(4, <<"A", "B">>), Tensor(3, <<"A">>),
     List(<<Tensor(3, <<"A">>), Tensor(3, <<"B">>)>>), List(<<Str(<<"c">>)>>),
     List(<<>>), Dict([path |-> Str(<<"c">>)])}

TopDicts ==
    DictsOver({PathKeys[i] : i \in DOMAIN PathKeys} \cup {"frames"},
              {Str(<<"a">>), Str(<<"b">>), Str(<<" ">>), IntV}, FrameVals, MaxKeys)

Seqs ==
    {List(<<>>), Tuple(<<>>)}
    \cup {List(<<h>> \o tl) : h \in Atoms \cup HeadDicts,
                              tl \in SeqsUpTo({Tensor(3, <<"B">>), Str(<<"b">>)}, MaxList - 1)}
    \cup {Tuple(<<h>> \o tl) : h \in Atoms \cup HeadDicts,
                               tl \in SeqsUpTo({Tensor(3, <<"B">>), Str(<<"b">>)}, MaxList - 1)}

Payloads == Atoms \cup TopDicts \cup Seqs

LoadVideos == {<<>>, <<" ">>, <<"a">>, <<"input", "/", "a">>, <<"~", "/", "a">>}

TensorItems == {Tensor(3, <<"A">>), Tensor(4, <<"B", "C">>), Tensor(2, <<"D">>)}

LoadPayloads ==
    {NoneV, IntV, Str(<<"a">>), Str(<<>>), Tensor(4, <<"A", "B">>), Tensor(4, <<>>),
     Dict([path |-> Str(<<"a">>)]), Dict([frames |-> Tensor(4, <<"A", "B">>)]),
     List(<<>>), List(<<Tensor(3, <<"A">>), Str(<<"a">>)>>)}
    \cup {List(s) : s \in SeqsUpTo(TensorItems, MaxList) \ {<<>>}}
    \cup {Tuple(s) : s \in SeqsUpTo(TensorItems, MaxList) \ {<<>>}}

RecentNames == {<<"a", ".mp4">>, <<"b", ".MP4">>, <<"c", ".mov">>}
RecentEntries == [name : RecentNames, mtime : {-1, 1, 2}]
DirStates ==
    {[state |-> "missing", listing |-> <<>>], [state |-> "error", listing |-> <<>>]}
    \cup {[state |-> "ok", listing |-> l] :
            l \in {s \in SeqsUpTo(RecentEntries, MaxList) :
                     \A i, j \in DOMAIN s : i # j => s[i].name # s[j].name}}

(***************************************************************************)
(* The calls.                                                              *)
(***************************************************************************)
RvInit == [video |-> <<>>, fs |-> {}, host |-> FALSE, out |-> NoneV]
ExInit == [video_in |-> NoneV, out |-> NoneV]

CallResolve ==
    /\ pc = "idle"
    /\ \E video \in PathStrings, host \in BOOLEAN :
          \E fs \in SUBSET ResolveCandidates(video) :
             rv' = [video |-> video, fs |-> fs, host |-> host,
                    out |-> Str(ResolveVideoPath(video, fs, host))]
    /\ pc' = "rv_done"
    /\ UNCHANGED <<ex, ld, dec, up, rec>>

CallExtract ==
    /\ pc = "idle"
    /\ \E video_in \in Payloads :
          ex' = [video_in |-> video_in, out |-> ExtractVideoSource(video_in)]
    /\ pc' = "ex_done"
    /\ UNCHANGED <<rv, ld, dec, up, rec>>

CallLoad ==
    /\ pc = "idle"
    /\ \E video \in LoadVideos, video_in \in LoadPayloads :
          ld' = [LdInit EXCEPT !.video = video, !.video_in = video_in]
    /\ pc' = "ld_extract"
    /\ UNCHANGED <<rv, ex, dec, up, rec>>

CallUpload ==
    /\ pc = "idle"
    /\ \E form_ok \in BOOLEAN, file \in UploadFiles :
          up' = [UpInit EXCEPT !.form_ok = form_ok, !.file = file]
    /\ pc' = "up_post"
    /\ UNCHANGED <<rv, ex, ld, dec, rec>>

CallRecent ==
    /\ pc = "idle"
    /\ \E input \in DirStates, output \in DirStates :
          rec' = [RecInit EXCEPT !.input = input, !.output = output]
    /\ pc' = "rc_scan"
    /\ UNCHANGED <<rv, ex, ld, dec, up>>

Init ==
    /\ pc = "idle"
    /\ rv = RvInit
    /\ ex = ExInit
    /\ ld = LdInit
    /\ dec = DecInit
    /\ up = UpInit
    /\ rec = RecInit

Next ==
    \/ CallResolve
    \/ CallExtract
    \/ CallLoad
    \/ LoadExtract
    \/ LoadResolve
    \/ ReadStart
    \/ ImportCv2
    \/ CheckOpened
    \/ ReadFirst
    \/ CvtFirst
    \/ SeekLast
    \/ ReadLast
    \/ ScanInit
    \/ ScanRead
    \/ CvtLast
    \/ ReleaseReturn
    \/ ReadIio
    \/ LoadReadReturn
    \/ LoadPreview
    \/ LoadReturn
    \/ CallUpload
    \/ UploadPost
    \/ UploadValidate
    \/ UploadMakedirs
    \/ UploadRead
    \/ UploadWrite
    \/ CallRecent
    \/ RecentHandler

Spec == Init /\ [][Next]_vars

(***************************************************************************)
(* The claims.                                                             *)
(***************************************************************************)

\* C1: on every exit of _read_first_last_frames taken after the primary
\* backend's handle was created, the handle has been released.
C1_HandleReleasedOnExit ==
    (dec.out # "none" /\ dec.cap # "none") => dec.cap = "released"

\* C2, as stated: for an existing regular file an error is raised only when
\* every backend has failed (the primary, unless it is absent, and the
\* secondary); no error reaches the caller while a backend remains untried.
C2_RaisesOnlyWhenAllBackendsFailed ==
    (dec.isfile /\ dec.out \notin {"none", "returned"})
        => /\ "secondary" \in dec.failed
           /\ dec.cv2 => "primary" \in dec.failed

\* C2, amended: for an existing regular file an error is raised only when the
\* one backend the call used has failed: the primary when cv2 is installed (the
\* secondary is then never tried), the secondary when cv2 is absent (absence
\* alone raises nothing).
C2_RaisesOnlyWhenUsedBackendFailed ==
    (dec.isfile /\ dec.out \notin {"none", "returned"})
        => IF dec.cv2
           THEN dec.failed = {"primary"} /\ dec.tried = {"primary"}
           ELSE dec.failed = {"secondary"} /\ dec.tried = {"secondary"}

C2_Witness ==
    /\ dec.isfile
    /\ ~dec.cv2
    /\ dec.out = "RuntimeError"
    /\ dec.failed = {"secondary"}

\* C3: every pair of frames _read_first_last_frames returns consists of
\* 3-dimensional arrays with 3 channels, which _to_comfy_image accepts.
C3_ReturnedFramesAreRgb ==
    dec.out = "returned"
        => \A i \in 1..2 : /\ dec.ret[i].ndim = 3
                           /\ dec.ret[i].ch = 3
                           /\ ToComfyImage(dec.ret[i]).k = "ret"

\* C4: when video_in is a non-empty list or tuple of tensors only, load returns
\* (first item, last item), each with a leading batch axis added when it has 3
\* dimensions, and resolves no path, checks no file, decodes nothing and writes
\* no preview, whatever the primary string.
C4_IsTensorCollection(v) ==
    /\ IsSeqV(v)
    /\ v.items # <<>>
    /\ \A i \in DOMAIN v.items : v.items[i].t = "tensor"

C4_WithBatchAxis(x) == IF x.ndim = 3 THEN [x EXCEPT !.ndim = 4] ELSE x

C4_TensorCollectionShortCircuits ==
    C4_IsTensorCollection(ld.video_in)
        => /\ pc \in {"ld_extract", "ld_done"}
           /\ ld.effects = {}
           /\ dec = DecInit
           /\ ld.previewFault = "unset"
           /\ pc = "ld_done"
                => /\ ld.out = "returned"
                   /\ ld.ui = NoneV
                   /\ ld.result =
                        <<C4_WithBatchAxis(ld.video_in.items[1]),
                          C4_WithBatchAxis(ld.video_in.items[Len(ld.video_in.items)])>>

C4_Witness ==
    /\ pc = "ld_done"
    /\ ld.video = <<"input", "/", "a">>
    /\ ld.video_in = List(<<Tensor(3, <<"A">>), Tensor(4, <<"B", "C">>)>>)
    /\ ld.result = <<Tensor(4, <<"A">>), Tensor(4, <<"B", "C">>)>>

\* C5: whatever fails inside _save_temp_preview_png, it returns None instead of
\* raising, and load ends as it does when the preview succeeds (the two images
\* converted from the decoded frames), only without the UI descriptor.
C5_PreviewIsBestEffort ==
    (pc = "ld_done" /\ ld.previewFault # "unset")
        => LET a == ToComfyImage(ld.first_rgb)
               b == ToComfyImage(ld.last_rgb)
           IN  /\ ld.previewFault # "none" => ld.preview = NoneV /\ ld.ui = NoneV
               /\ ld.previewFault = "none" /\ ld.out = "returned" => ld.ui # NoneV
               /\ IF a.k = "ret" /\ b.k = "ret"
                  THEN ld.out = "returned" /\ ld.result = <<a.v, b.v>>
                  ELSE ld.out = "ValueError"

C5_Witness ==
    /\ pc = "ld_done"
    /\ ld.previewFault = "save"
    /\ ld.out = "returned"
    /\ ld.ui = NoneV
    /\ ld.result[1].imgs[1].idx = 0

\* C6: the upload handler answers 4xx and writes nothing when the form is
\* malformed, the file field is missing or the file name does not end in .mp4
\* (in any case of letters); in every other case it writes the uploaded bytes to
\* <input directory>/<base name of the file name> and answers with that name.
C6_FileName == IF up.file.t = "file" /\ up.file.filename # NoneV THEN up.file.filename.s ELSE <<>>

C6_UploadRejectsOrStores ==
    pc = "up_done"
        => IF ~up.form_ok \/ up.file = NoneV \/ ~EndsWith(Lower(C6_FileName), <<".mp4">>)
           THEN /\ up.out = "response"
                /\ up.status \in 400..499
                /\ up.written = {}
           ELSE /\ up.out = "response"
                /\ up.status = 200
                /\ up.body = [name |-> Basename(C6_FileName)]
                /\ \A i \in DOMAIN up.body.name : up.body.name[i] # "/"
                /\ up.written = {[path |-> InputDir \o <<"/">> \o Basename(C6_FileName),
                                  data |-> up.file.data]}

\* C7: no fault escapes a handler: the upload handler and the recent listing end
\* with a JSON response (an error with a 4xx status, or an empty file list with
\* an error message) whatever step fails.
C7_HandlersAlwaysRespond ==
    /\ pc = "up_done" => up.out = "response"
    /\ pc = "rc_done" => rec.out = "response"

\* C8: a string that, stripped and with its separators normalised, starts with
\* input/, output/ or temp/ resolves to the storage directory joined with the
\* remainder of the string exactly when that file exists, and otherwise by the
\* later rules (the input-directory lookup, then the string itself).
C8_Expected(video0, fs, prefix, dir) ==
    LET video == Strip(video0)
        norm == ReplaceBackslash(video)
        cand == Join(dir, SubSeq(norm, Len(<<prefix, "/">>) + 1, Len(norm)))
    IN  IF cand \in fs THEN cand
        ELSE IF Join(InputDir, video) \in fs THEN Join(InputDir, video)
        ELSE video

C8_PrefixedPathResolves ==
    (pc = "rv_done" /\ rv.host)
        => \A pd \in {<<"input", InputDir>>, <<"output", OutputDir>>, <<"temp", TempDir>>} :
              StartsWith(ReplaceBackslash(Strip(rv.video)), <<pd[1], "/">>)
                 => rv.out = Str(C8_Expected(rv.video, rv.fs, pd[1], pd[2]))

\* C9: with the primary backend, the frame at index count-1 is returned as last
\* when the reported count exceeds 1 and the seek-and-read there succeeds;
\* otherwise every frame after frame 0 is read and the last one read is returned,
\* the first frame standing in only when no frame follows it.
C9_SeekReadSucceeded == dec.frame_count > 1 /\ dec.seekRead = "ok"

C9_LastFrameReturned ==
    (dec.cv2 /\ dec.out = "returned")
        => /\ dec.ret[1] = CvtColor(BgrFrame(0))
           /\ dec.ret[2] = IF C9_SeekReadSucceeded
                           THEN CvtColor(BgrFrame(dec.frame_count - 1))
                           ELSE CvtColor(BgrFrame(dec.nFrames - 1))

\* C10: a mapping, given as the payload or as the first element of a collection
\* that is not all tensors, resolves to the first string found under path,
\* fullpath, filename, file, video, name; when no key holds a string its embedded
\* frames are resolved in its place by the same rules (string, mapping,
\* collection, 4-D tensor), and only then is "no source" reported.
RECURSIVE C10_Resolved(_)
C10_Resolved(v) ==
    CASE IsStr(v) -> <<v, NoneV, NoneV>>
      [] IsDict(v) ->
           IF KeyHits(v) # {}
           THEN <<Get(v, PathKeys[CHOOSE i \in KeyHits(v) : \A j \in KeyHits(v) : i <= j]),
                  NoneV, NoneV>>
           ELSE IF Get(v, "frames") # NoneV THEN C10_Resolved(Get(v, "frames"))
           ELSE <<NoneV, NoneV, NoneV>>
      [] IsSeqV(v) /\ v.items # <<>> ->
           IF C4_IsTensorCollection(v)
           THEN <<NoneV, C4_WithBatchAxis(v.items[1]),
                  C4_WithBatchAxis(v.items[Len(v.items)])>>
           ELSE IF IsStr(v.items[1]) \/ IsDict(v.items[1]) THEN C10_Resolved(v.items[1])
           ELSE <<NoneV, NoneV, NoneV>>
      [] IsTensor(v) /\ v.ndim = 4 /\ Len(v.imgs) >= 1 ->
           <<NoneV, [v EXCEPT !.imgs = <<v.imgs[1]>>],
             [v EXCEPT !.imgs = <<v.imgs[Len(v.imgs)]>>]>>
      [] OTHER -> <<NoneV, NoneV, NoneV>>

C10_IsMappingCase(v) ==
    \/ IsDict(v)
    \/ /\ IsSeqV(v)
       /\ v.items # <<>>
       /\ ~C4_IsTensorCollection(v)
       /\ IsDict(v.items[1])

C10_MappingResolves ==
    (pc = "ex_done" /\ C10_IsMappingCase(ex.video_in))
        => ex.out = C10_Resolved(ex.video_in)

====
